---- MODULE Spec2Model ----
(***************************************************************************)
(* Model of the Billboard chart caching proxy                              *)
(* (backend/blueprints/billboard_api.py, backend/app.py).                  *)
(*                                                                         *)
(* The key-value cache is a function from key strings to entries with an   *)
(* absolute expiry time; the clock `now` counts seconds from a Monday      *)
(* 00:00, so that datetime.now().weekday() is (now \div DAY) % 7.          *)
(* One Request action is one whole run of get_chart.                       *)
(***************************************************************************)
EXTENDS Integers, Naturals, Sequences, FiniteSets, TLC

VARIABLES now, cache, last, tripped, nreq, nelapse, amcache, call, nlookup, pool, flight

\* the state of get_chart and the state of AppleMusicService
chartvars == <<cache, last, tripped, nreq, flight>>

amvars == <<amcache, call, nlookup>>

vars == <<now, cache, last, tripped, nreq, nelapse, amcache, call, nlookup, pool, flight>>

---------------------------------------------------------------------------
(* Bounds of the model *)

MaxRequests == 2

MaxElapses == 1

\* calls of search_song and get_token, and steps of the clock between them
MaxLookups == 3

MaxWaits == 2

\* entries of a snapshot given to enrich_chart_data, and successive calls of it
MaxSongs == 6

MaxCalls == 2

\* requests that arrive while others are in flight
MaxStarts == 3

---------------------------------------------------------------------------
(* Program constants *)

ONE_HOUR == 3600

ONE_WEEK == 604800

RATE_LIMIT_TIMEOUT == 300

CACHE_DEFAULT_TIMEOUT == 3600

\* timeout=None as passed to cache.set
TimeoutNone == -1

\* datetime.weekday(): Monday is 0, Tuesday is 1
TUESDAY == 1

DAY == 86400

HTTP_TOO_MANY == 429

HTTP_SERVER_ERROR == 500

STATUS_OK == 200

STATUS_UNAVAILABLE == 503

APPLE_MUSIC_TOKEN_TIMEOUT == 11 * 3600

\* expiration_time = time_now + timedelta(hours=12)
TOKEN_LIFETIME == 12 * 3600

\* cache.set(cache_key, result, timeout=24*60*60)
SEARCH_TIMEOUT == 24 * 60 * 60

\* cache.set(cache_key, None, timeout=300)
SEARCH_FAILURE_TIMEOUT == 300

\* ThreadPoolExecutor(max_workers=5)
MAX_WORKERS == 5

---------------------------------------------------------------------------
(* Request parameters *)

ChartIds == {"hot-100", "billboard-200"}

\* request.args.get('week'): None or "" (both falsy) are written ""
NoWeek == ""

Weeks == {NoWeek, "2022-01-01"}

\* the (id, week) pairs requested: those of TEST_PARAMETERS
Targets == {<<"hot-100", NoWeek>>, <<"billboard-200", NoWeek>>, <<"hot-100", "2022-01-01">>}

RATE_KEY == "billboard:rate_limited"

\* f"billboard:{chart_id}" + (f":{week}" if week else "")
CacheKey(chart_id, week) ==
    "billboard:" \o chart_id \o (IF week # NoWeek THEN ":" \o week ELSE "")

ChartKeys == {CacheKey(tg[1], tg[2]) : tg \in Targets}

Keys == ChartKeys \cup {RATE_KEY}

---------------------------------------------------------------------------
(* Values held by the cache and returned by the chart provider *)

NoneVal == [kind |-> "none"]

TrueVal == [kind |-> "true"]

\* the JSON object {}: a dict, without "error", and falsy
EmptyDict == [kind |-> "emptydict"]

NoDate == "none"

\* apple_music of an entry: "missing" (no key), "null" (None), "raw" (a result
\* whose artwork_url still holds the {w}x{h} placeholder), "std" (1000x1000)
AmStates == {"missing", "null", "raw", "std"}

Entry(title) == [title |-> title, am |-> "missing"]

Chart(id, date, title) ==
    [kind |-> "chart", id |-> id, date |-> date, entries |-> <<Entry(title)>>]

\* what the provider can answer with a 2xx status and a valid body: for the
\* current chart last week's chart, a revision of it, or this week's; for a
\* past week that week's chart or a revision of it
PayloadsFor(chart_id, week) ==
    IF week # NoWeek
    THEN {Chart(chart_id, week, "Song A"), Chart(chart_id, week, "Song B")}
    ELSE IF chart_id = "hot-100"
    THEN {Chart(chart_id, "2023-03-28", "Song A"),
          Chart(chart_id, "2023-03-28", "Song B"),
          Chart(chart_id, "2023-04-04", "Song B")}
    ELSE {Chart(chart_id, "2023-03-28", "Song A")}

Payloads == UNION {PayloadsFor(tg[1], tg[2]) : tg \in Targets}

\* Python truthiness of a cached value (None and {} are falsy)
Truthy(v) == v.kind \notin {"none", "emptydict"}

\* data.get("chart", {}).get("date")
ChartDate(v) == IF v.kind = "chart" THEN v.date ELSE NoDate

---------------------------------------------------------------------------
(* The key-value cache *)

Absent == [val |-> NoneVal, exp |-> 0]

\* flask-caching: timeout=None means the configured CACHE_DEFAULT_TIMEOUT
NormalizeTimeout(timeout) ==
    IF timeout = TimeoutNone THEN CACHE_DEFAULT_TIMEOUT ELSE timeout

Live(c, t, k) == c[k] # Absent /\ t < c[k].exp

CacheGet(c, t, k) == IF Live(c, t, k) THEN c[k].val ELSE NoneVal

CacheSet(c, t, k, v, timeout) ==
    [c EXCEPT ![k] = [val |-> v, exp |-> t + NormalizeTimeout(timeout)]]

CacheDelete(c, k) == [c EXCEPT ![k] = Absent]

\* expiry: an entry is gone once its time to live has passed
Purge(c, t) == [k \in Keys |-> IF Live(c, t, k) THEN c[k] ELSE Absent]

\* truthiness of cache.get("billboard:rate_limited")
RateLimited(c, t) == Truthy(CacheGet(c, t, RATE_KEY))

Weekday(t) == (t \div DAY) % 7

---------------------------------------------------------------------------
(* AppleMusicService.enrich_chart_data, with the answers of search_song given *)

\* a replacement that puts the placeholder back into a standardized url
StandardizeArtwork_Toggle(am) ==
    IF am = "raw" THEN "std" ELSE IF am = "std" THEN "raw" ELSE am

\* url.replace("{w}x{h}bb.jpg", "1000x1000bb.jpg") on the artwork of a result
StandardizeArtwork(am) == IF am = "raw" THEN "std" ELSE am

StandardizeAll(songs) ==
    [i \in 1..Len(songs) |-> [songs[i] EXCEPT !.am = StandardizeArtwork(@)]]

\* results zipped with songs_to_process from its other end
RankMissing_Reversed(songs, i) ==
    Cardinality({j \in i..Len(songs) : songs[j].am = "missing"})

\* position of entry i in songs_to_process (the entries without apple_music)
RankMissing(songs, i) == Cardinality({j \in 1..i : songs[j].am = "missing"})

\* an enrichment that drops the entries when a lookup returned None
EnrichChartData_DropOnFailure(data, results) ==
    IF ~Truthy(data) THEN data
    ELSE IF data.kind # "chart" THEN data
    ELSE IF \E k \in 1..Len(results) : results[k] = "null"
    THEN [data EXCEPT !.entries = <<>>]
    ELSE [data EXCEPT !.entries =
            [i \in 1..Len(data.entries) |->
               IF data.entries[i].am = "missing"
               THEN [data.entries[i] EXCEPT !.am = results[RankMissing(data.entries, i)]]
               ELSE [data.entries[i] EXCEPT !.am = StandardizeArtwork(@)]]]

\* results[k] is what search_song returned for the k-th entry of songs_to_process
EnrichChartData(data, results) ==
    IF ~Truthy(data) THEN data
    ELSE IF data.kind # "chart" THEN data
    ELSE LET songs == StandardizeAll(data.entries)
         IN  IF \A i \in 1..Len(songs) : songs[i].am # "missing"
             THEN [data EXCEPT !.entries = songs]
             ELSE [data EXCEPT !.entries =
                     [i \in 1..Len(songs) |->
                        IF songs[i].am = "missing"
                        THEN [songs[i] EXCEPT !.am = results[RankMissing(songs, i)]]
                        ELSE songs[i]]]

\* what search_song can return: None, or a result with standardized artwork
LookupResults == {"null", "std"}

\* the catalog of the chart specifications: "Song A" is found, "Song B" is not
CatalogAnswer(title) == IF title = "Song A" THEN "std" ELSE "null"

\* the answers of search_song to the entries of data without apple_music
AnswersFor(data) ==
    IF data.kind # "chart" THEN <<>>
    ELSE LET missing == SelectSeq(data.entries, LAMBDA e : e.am = "missing")
         IN  [k \in 1..Len(missing) |-> CatalogAnswer(missing[k].title)]

\* the entries without the injected apple_music field
StripEnrichment(data) ==
    IF data.kind # "chart" THEN data
    ELSE [data EXCEPT !.entries =
            [i \in 1..Len(data.entries) |-> [data.entries[i] EXCEPT !.am = "missing"]]]

---------------------------------------------------------------------------
(* AppleMusicService.get_token and AppleMusicService.search_song *)

TOKEN_KEY == "apple_music:token"

\* the (title, artist) pairs looked up
Pairs == {<<"Song A", "Artist">>, <<"Song B", "Artist">>}

\* f"apple_music:search:{title}:{artist}"
SearchKey(title, artist) == "apple_music:search:" \o title \o ":" \o artist

\* the keys of the shared cache that AppleMusicService can see
AmKeys == {TOKEN_KEY, RATE_KEY} \cup {SearchKey(p[1], p[2]) : p \in Pairs}

EmptyAmCache == [k \in AmKeys |-> Absent]

AmPurge(c, t) == [k \in AmKeys |-> IF Live(c, t, k) THEN c[k] ELSE Absent]

\* the JWT: its payload's iat and exp
MintToken(t) == [kind |-> "token", iat |-> t, exp |-> t + TOKEN_LIFETIME]

\* an except branch that lets the exception out
MintFailed_Raise(c) ==
    [cache |-> c, token |-> NoneVal, minted |-> FALSE, raised |-> TRUE]

\* the except branch of get_token: the error is logged, None is returned
MintFailed(c) ==
    [cache |-> c, token |-> NoneVal, minted |-> FALSE, raised |-> FALSE]

\* a get_token that never reads the cache
GetToken_NoCache(c, t, creds) ==
    IF creds
    THEN [cache |-> CacheSet(c, t, TOKEN_KEY, MintToken(t), APPLE_MUSIC_TOKEN_TIMEOUT),
          token |-> MintToken(t), minted |-> TRUE, raised |-> FALSE]
    ELSE MintFailed(c)

\* get_token; creds is FALSE when jwt.encode raises (no usable credentials)
GetToken(c, t, creds) ==
    LET token == CacheGet(c, t, TOKEN_KEY)
    IN  IF Truthy(token)
        THEN [cache |-> c, token |-> token, minted |-> FALSE, raised |-> FALSE]
        ELSE IF creds
        THEN [cache |-> CacheSet(c, t, TOKEN_KEY, MintToken(t), APPLE_MUSIC_TOKEN_TIMEOUT),
              token |-> MintToken(t), minted |-> TRUE, raised |-> FALSE]
        ELSE MintFailed(c)

\* answers of the catalog to requests.get + raise_for_status + json: a song
\* whose artwork url holds the {w}x{h} placeholder, no song, or a failure
\* (transport error or timeout, or an HTTP error status such as 429)
CatalogFailures == {"fail", "ratelimit"}

CatalogAnswers == {"raw", "null"} \cup CatalogFailures

\* the `result` of search_song: None, or a dict with standardized artwork
SearchResult(answer) ==
    IF answer = "null" THEN NoneVal
    ELSE [kind |-> "result", artwork |-> StandardizeArtwork(answer)]

\* `if cached_result and "artwork_url" in cached_result`
StandardizeCached(cached_result) ==
    IF Truthy(cached_result)
    THEN [cached_result EXCEPT !.artwork = StandardizeArtwork(@)]
    ELSE cached_result

\* `if cached_result is not None`
IsCacheHit(c, t, key) == CacheGet(c, t, key) # NoneVal

\* a token failure that is cached like a search failure
NoToken_Poison(c, t, key) == CacheSet(c, t, key, NoneVal, SEARCH_FAILURE_TIMEOUT)

\* `if not token: return None`: nothing is written
NoToken(c, t, key) == c

\* an except branch that also sets the rate-limit flag of the chart path
SearchFailed_TripsBreaker(c, t, key) ==
    CacheSet(CacheSet(c, t, key, NoneVal, SEARCH_FAILURE_TIMEOUT),
             t, RATE_KEY, TrueVal, RATE_LIMIT_TIMEOUT)

\* the except branch: "Cache failures briefly to prevent immediate retries"
SearchFailed(c, t, key) == CacheSet(c, t, key, NoneVal, SEARCH_FAILURE_TIMEOUT)

\* a search that stores the result for five minutes only
SearchSucceeded_ShortTtl(c, t, key, result) ==
    CacheSet(c, t, key, result, SEARCH_FAILURE_TIMEOUT)

\* "Cache results for 24 hours"
SearchSucceeded(c, t, key, result) == CacheSet(c, t, key, result, SEARCH_TIMEOUT)

\* one run of search_song against cache c at time t
SearchSong(c, t, title, artist, creds, answer) ==
    LET key == SearchKey(title, artist)
        cached_result == CacheGet(c, t, key)
    IN  IF IsCacheHit(c, t, key)
        THEN [cache |-> c, result |-> StandardizeCached(cached_result), hit |-> TRUE,
              asked |-> FALSE, minted |-> FALSE, token |-> NoneVal, outbound |-> FALSE,
              raised |-> FALSE]
        ELSE LET tk == GetToken(c, t, creds)
             IN  IF ~Truthy(tk.token)
                 THEN [cache |-> NoToken(tk.cache, t, key), result |-> NoneVal,
                       hit |-> FALSE, asked |-> TRUE, minted |-> tk.minted,
                       token |-> tk.token, outbound |-> FALSE, raised |-> tk.raised]
                 ELSE IF answer \in CatalogFailures
                 THEN [cache |-> SearchFailed(tk.cache, t, key), result |-> NoneVal,
                       hit |-> FALSE, asked |-> TRUE, minted |-> tk.minted,
                       token |-> tk.token, outbound |-> TRUE, raised |-> FALSE]
                 ELSE [cache |-> SearchSucceeded(tk.cache, t, key, SearchResult(answer)),
                       result |-> SearchResult(answer),
                       hit |-> FALSE, asked |-> TRUE, minted |-> tk.minted,
                       token |-> tk.token, outbound |-> TRUE, raised |-> FALSE]

\* the frame of the call of search_song or get_token that has just returned
NoLookup ==
    [done |-> FALSE, op |-> "", key |-> "", creds |-> FALSE, answer |-> "",
     hit |-> FALSE, asked |-> FALSE, minted |-> FALSE, token |-> NoneVal,
     outbound |-> FALSE, result |-> NoneVal, raised |-> FALSE, at |-> 0]

---------------------------------------------------------------------------
(* The worker pool of enrich_chart_data *)

\* a snapshot whose entries carry distinct titles
TitleOf(i) == "Song " \o ToString(i)

\* apple_music of an entry given to enrich_chart_data
InputAm == {"missing", "null", "raw"}

SnapshotOf(ams) ==
    [kind |-> "chart", id |-> "hot-100", date |-> "2023-03-28",
     entries |-> [i \in 1..Len(ams) |-> [title |-> TitleOf(i), am |-> ams[i]]]]

\* None, {}, a dict with neither "chart" nor "songs", and snapshots
EnrichInputs ==
    {NoneVal, EmptyDict, [kind |-> "other"]}
    \cup {SnapshotOf(ams) : ams \in UNION {[1..n -> InputAm] : n \in {0, 1, MaxSongs}}}

\* what search_song returns to the worker: the song found for the title, or
\* None when the outbound call failed or timed out
WorkerAnswers == {"found", "fail"}

ResultFor(title, answer) == IF answer = "found" THEN "std:" \o title ELSE "null"

\* songs_to_process with entries that carry a null apple_music included
SongsToProcess_NullToo(songs) ==
    LET idxs == {i \in 1..Len(songs) : songs[i].am \in {"missing", "null"}}
    IN  [k \in 1..Cardinality(idxs) |->
           CHOOSE i \in idxs : Cardinality({j \in idxs : j <= i}) = k]

\* [s for s in songs if "apple_music" not in s], as positions in songs
SongsToProcess(songs) ==
    LET idxs == {i \in 1..Len(songs) : songs[i].am = "missing"}
    IN  [k \in 1..Cardinality(idxs) |->
           CHOOSE i \in idxs : Cardinality({j \in idxs : j <= i}) = k]

\* executor.map: one task per element of song_data, in order
NewTasks(songs) ==
    LET todo == SongsToProcess(songs)
    IN  [k \in 1..Len(todo) |->
           [idx |-> todo[k], title |-> songs[todo[k]].title, st |-> "queued",
            answer |-> "", result |-> "missing"]]

Running(tasks) == {k \in 1..Len(tasks) : tasks[k].st = "running"}

\* a pool that starts a thread for every task
CanStart_Unbounded(tasks, k) ==
    /\ tasks[k].st = "queued"
    /\ \A j \in 1..(k - 1) : tasks[j].st # "queued"

\* the pool takes tasks from its queue in order, while a worker is free
CanStart(tasks, k) ==
    /\ tasks[k].st = "queued"
    /\ \A j \in 1..(k - 1) : tasks[j].st # "queued"
    /\ Cardinality(Running(tasks)) < MAX_WORKERS

\* results collected as soon as the first task is done
CanCollect_First(tasks) == tasks[1].st = "done"

\* list(executor.map(...)) and the exit of the with block wait for every task
CanCollect(tasks) == \A k \in 1..Len(tasks) : tasks[k].st = "done"

IdlePool ==
    [phase |-> "idle", input |-> NoneVal, data |-> NoneVal, prev |-> NoneVal,
     tasks |-> <<>>, ncalls |-> 0, lookups |-> 0, overtaken |-> FALSE]

---------------------------------------------------------------------------
(* Answers of the chart provider to requests.get + raise_for_status + json *)

NoUp == [kind |-> "none", status |-> 0, data |-> NoneVal]

UpOk(p) == [kind |-> "ok", status |-> STATUS_OK, data |-> p]

UpHttp(s) == [kind |-> "http", status |-> s, data |-> NoneVal]

UpOther(kind) == [kind |-> kind, status |-> 0, data |-> NoneVal]

\* "timeout": requests.exceptions.Timeout; "badjson": ValueError of
\* response.json(); "errorbody": a dict with an "error" field; "notdict": a
\* JSON body that is no object
UpFailureKinds == {"timeout", "badjson", "errorbody", "notdict"}

UpFailures ==
    {UpHttp(s) : s \in {HTTP_TOO_MANY, HTTP_SERVER_ERROR}}
    \cup {UpOther(k) : k \in UpFailureKinds}

UpstreamFor(chart_id, week) ==
    {UpOk(p) : p \in PayloadsFor(chart_id, week)} \cup UpFailures

UpFailed(up) == up.kind \notin {"ok", "none"}

\* the text of the exception, str(e), or of the body's "error" field
ErrText(up) ==
    CASE up.kind = "timeout" -> "Read timed out"
      [] up.kind = "badjson" -> "Expecting value"
      [] up.kind = "errorbody" -> "Chart not found"
      [] up.kind = "notdict" -> "Invalid response format"
      [] OTHER -> ""

\* the message of each except branch of get_chart
FailureMessage(up) ==
    CASE up.kind = "http" /\ up.status = HTTP_TOO_MANY -> "API rate limit exceeded"
      [] up.kind = "http" /\ up.status # HTTP_TOO_MANY ->
            "API error: Status code " \o ToString(up.status)
      [] up.kind = "timeout" -> "Timeout: " \o ErrText(up)
      [] up.kind = "badjson" -> "API error: " \o ErrText(up)
      [] OTHER -> ErrText(up)

---------------------------------------------------------------------------
(* get_chart *)

NoNote == ""

Response(status, data, cached, note) ==
    [status |-> status, body |-> data, cached |-> cached, note |-> note,
     error |-> "", status_code |-> 0]

ErrorResponse(message, status_code) ==
    [status |-> STATUS_UNAVAILABLE, body |-> NoneVal, cached |-> FALSE,
     note |-> NoNote, error |-> message, status_code |-> status_code]

\* a weekday test that takes Tuesday for 2, as isoweekday() numbers it
IsTuesday_Iso(t) == Weekday(t) = TUESDAY + 1

IsTuesday(t) == Weekday(t) = TUESDAY

\* need_api_call without `not week`: past weeks are revalidated on Tuesdays
NeedApiCall_NoWeekCheck(refresh, cached_data, week, c, t) ==
    \/ refresh
    \/ ~Truthy(cached_data)
    \/ (IsTuesday(t) /\ ~RateLimited(c, t))

\* need_api_call without the rate-limit check
NeedApiCall_IgnoreFlag(refresh, cached_data, week, c, t) ==
    \/ refresh
    \/ ~Truthy(cached_data)
    \/ (week = NoWeek /\ IsTuesday(t))

\* need_api_call
NeedApiCall(refresh, cached_data, week, c, t) ==
    \/ refresh
    \/ ~Truthy(cached_data)
    \/ (week = NoWeek /\ IsTuesday(t) /\ ~RateLimited(c, t))

\* the cached branch without the rate-limit note
ServeCached_NoNote(c, t, cached_data, include, r1) ==
    [cache |-> c,
     resp |-> Response(STATUS_OK,
                       IF include THEN EnrichChartData(cached_data, r1) ELSE cached_data,
                       TRUE, NoNote)]

\* the cached branch returning the entries without their apple_music field
ServeCached_Stripped(c, t, cached_data, include, r1) ==
    [cache |-> c, resp |-> Response(STATUS_OK, StripEnrichment(cached_data), TRUE, NoNote)]

\* the return of the `if not need_api_call and cached_data` branch
ServeCached(c, t, cached_data, include, r1) ==
    LET data == IF include THEN EnrichChartData(cached_data, r1) ELSE cached_data
        note == IF RateLimited(c, t) THEN "API rate limited, serving cached data"
                ELSE NoNote
    IN  [cache |-> c, resp |-> Response(STATUS_OK, data, TRUE, note)]

\* a payload check made after the flag has been cleared
TripBreaker_ClearOnPayloadError(c, t, up) ==
    IF up.kind = "http" /\ up.status = HTTP_TOO_MANY
    THEN CacheSet(c, t, RATE_KEY, TrueVal, RATE_LIMIT_TIMEOUT)
    ELSE IF up.kind \in {"errorbody", "notdict"} THEN CacheDelete(c, RATE_KEY)
    ELSE c

\* a flag kept for an hour
TripBreaker_LongTtl(c, t, up) ==
    IF up.kind = "http" /\ up.status = HTTP_TOO_MANY
    THEN CacheSet(c, t, RATE_KEY, TrueVal, ONE_HOUR)
    ELSE c

\* a 429 handled like any other failure: the flag is left alone
TripBreaker_Never(c, t, up) == c

\* the flag after an HTTPError: set for RATE_LIMIT_TIMEOUT on a 429
TripBreaker(c, t, up) ==
    IF up.kind = "http" /\ up.status = HTTP_TOO_MANY
    THEN CacheSet(c, t, RATE_KEY, TrueVal, RATE_LIMIT_TIMEOUT)
    ELSE c

\* a failure that never looks at the cached data
FallbackOrError_NeverFallback(cached_data, include, up, r1) ==
    ErrorResponse(FailureMessage(up), IF up.kind = "http" THEN up.status ELSE 0)

\* a failure that serves cached_data without testing it
FallbackOrError_AlwaysFallback(cached_data, include, up, r1) ==
    Response(STATUS_OK,
             IF include THEN EnrichChartData(cached_data, r1) ELSE cached_data,
             TRUE, FailureMessage(up) \o ", serving cached data")

\* "Fall back to cached data if available", else the 503
FallbackOrError(cached_data, include, up, r1) ==
    IF Truthy(cached_data)
    THEN Response(STATUS_OK,
                  IF include THEN EnrichChartData(cached_data, r1) ELSE cached_data,
                  TRUE, FailureMessage(up) \o ", serving cached data")
    ELSE ErrorResponse(FailureMessage(up),
                       IF up.kind = "http" THEN up.status ELSE 0)

\* except branches that store the enriched fallback under the current key
FetchFailed_StoresFallback(c, t, cached_data, include, up, r1) ==
    [cache |-> IF Truthy(cached_data) /\ include
               THEN CacheSet(TripBreaker(c, t, up), t, CacheKey(cached_data.id, NoWeek),
                             EnrichChartData(cached_data, r1), ONE_HOUR)
               ELSE TripBreaker(c, t, up),
     resp |-> FallbackOrError(cached_data, include, up, r1)]

\* the three except branches
FetchFailed(c, t, cached_data, include, up, r1) ==
    [cache |-> TripBreaker(c, t, up),
     resp |-> FallbackOrError(cached_data, include, up, r1)]

\* a date check that takes every Tuesday answer for an unchanged chart
SameDateOnTuesday_IgnoreDate(t, week, refresh, cached_data, new_data) ==
    week = NoWeek /\ IsTuesday(t) /\ Truthy(cached_data) /\ ~refresh

\* a date check that applies to forced refreshes too
SameDateOnTuesday_IgnoreRefresh(t, week, refresh, cached_data, new_data) ==
    /\ week = NoWeek
    /\ IsTuesday(t)
    /\ Truthy(cached_data)
    /\ ChartDate(cached_data) = ChartDate(new_data)

\* a date check that never finds the dates equal
SameDateOnTuesday_Never(t, week, refresh, cached_data, new_data) == FALSE

\* "the chart hasn't been updated yet despite being Tuesday"
SameDateOnTuesday(t, week, refresh, cached_data, new_data) ==
    /\ week = NoWeek
    /\ IsTuesday(t)
    /\ Truthy(cached_data)
    /\ ~refresh
    /\ ChartDate(cached_data) = ChartDate(new_data)

\* a success that leaves the flag as it is
ClearBreaker_Skip(c) == c

\* "Clear rate limit flag if request was successful"
ClearBreaker(c) == CacheDelete(c, RATE_KEY)

\* a try body whose same-date branch answers cached:false
FetchSucceeded_SameDateFresh(c, t, key, week, refresh, cached_data, include, payload, r1, r2) ==
    LET c1 == ClearBreaker(c)
        new_data == IF include THEN EnrichChartData(payload, r1) ELSE payload
        old_data == IF include THEN EnrichChartData(cached_data, r2) ELSE cached_data
    IN  IF week # NoWeek
        THEN [cache |-> CacheSet(c1, t, key, new_data, TimeoutNone),
              resp |-> Response(STATUS_OK, new_data, FALSE, NoNote)]
        ELSE IF SameDateOnTuesday(t, week, refresh, cached_data, new_data)
        THEN [cache |-> CacheSet(c1, t, key, old_data, ONE_HOUR),
              resp |-> Response(STATUS_OK, old_data, FALSE, "No new chart data yet")]
        ELSE [cache |-> CacheSet(c1, t, key, new_data, ONE_WEEK),
              resp |-> Response(STATUS_OK, new_data, FALSE, NoNote)]

\* the try body after a valid response
FetchSucceeded(c, t, key, week, refresh, cached_data, include, payload, r1, r2) ==
    LET c1 == ClearBreaker(c)
        new_data == IF include THEN EnrichChartData(payload, r1) ELSE payload
        old_data == IF include THEN EnrichChartData(cached_data, r2) ELSE cached_data
    IN  IF week # NoWeek
        THEN [cache |-> CacheSet(c1, t, key, new_data, TimeoutNone),
              resp |-> Response(STATUS_OK, new_data, FALSE, NoNote)]
        ELSE IF SameDateOnTuesday(t, week, refresh, cached_data, new_data)
        THEN [cache |-> CacheSet(c1, t, key, old_data, ONE_HOUR),
              resp |-> Response(STATUS_OK, old_data, TRUE, "No new chart data yet")]
        ELSE [cache |-> CacheSet(c1, t, key, new_data, ONE_WEEK),
              resp |-> Response(STATUS_OK, new_data, FALSE, NoNote)]

\* one run of get_chart against cache c at time t; up is the provider's answer
\* if it is asked, r1 and r2 the answers of search_song to the enrich calls
GetChart(c, t, chart_id, week, refresh, include, up, r1, r2) ==
    LET key == CacheKey(chart_id, week)
        cached_data == CacheGet(c, t, key)
        fetch == NeedApiCall(refresh, cached_data, week, c, t)
        out == IF ~fetch THEN ServeCached(c, t, cached_data, include, r1)
               ELSE IF UpFailed(up)
               THEN FetchFailed(c, t, cached_data, include, up, r1)
               ELSE FetchSucceeded(c, t, key, week, refresh, cached_data,
                                   include, up.data, r1, r2)
    IN  [cache |-> out.cache, resp |-> out.resp, fetched |-> fetch,
         cached_data |-> cached_data]

---------------------------------------------------------------------------
(* Requests in flight: get_chart run by two workers of the server at once,
   one cache operation or upstream answer per step *)

Procs == {"w1", "w2"}

\* the chart dates the provider publishes, in order
Dates == <<"2023-03-28", "2023-04-04">>

DateRank(date) == IF date = Dates[1] THEN 1 ELSE IF date = Dates[2] THEN 2 ELSE 0

CurrentKey == CacheKey("hot-100", NoWeek)

\* the locals of one run of get_chart; seen counts the snapshots stored
\* before its cache.get
IdleProc ==
    [pc |-> "idle", refresh |-> FALSE, cached_data |-> NoneVal, need |-> FALSE,
     up |-> NoUp, seen |-> 0]

NoFlight ==
    [procs |-> [p \in Procs |-> IdleProc], published |-> 1, stores |-> 0,
     seen429 |-> FALSE, last429 |-> 0]

\* a store that keeps the entries found under the key
StoreFetched_Merge(c, t, q) ==
    LET out == FetchSucceeded(c, t, CurrentKey, NoWeek, q.refresh, q.cached_data,
                              FALSE, q.up.data, <<>>, <<>>)
    IN  [out.cache EXCEPT ![RATE_KEY] = c[RATE_KEY],
                          ![CurrentKey].val.entries =
                              IF Live(c, t, CurrentKey) THEN c[CurrentKey].val.entries ELSE @]

\* the cache.set of the try body, made by a run with locals q; the flag was
\* deleted in an earlier step and is left as it is found
StoreFetched(c, t, q) ==
    LET out == FetchSucceeded(c, t, CurrentKey, NoWeek, q.refresh, q.cached_data,
                              FALSE, q.up.data, <<>>, <<>>)
    IN  [out.cache EXCEPT ![RATE_KEY] = c[RATE_KEY]]

\* the failures of the provider distinguished here
FlightFailures == {UpHttp(HTTP_TOO_MANY), UpOther("timeout")}

---------------------------------------------------------------------------
(* The state machine *)

NoResponse == Response(0, NoneVal, FALSE, NoNote)

\* the frame of the request that has just returned; `done` is FALSE when no
\* request has just returned
NoLast ==
    [done |-> FALSE, id |-> "", week |-> NoWeek, refresh |-> FALSE,
     include |-> FALSE, key |-> "", cached_data |-> NoneVal, limited |-> FALSE,
     fetched |-> FALSE, up |-> NoUp, params |-> <<>>, at |-> 0,
     resp |-> NoResponse]

\* the service starts on a Tuesday at 00:00 (the clock counts from a Monday)
StartTime == TUESDAY * DAY

EmptyCache == [k \in Keys |-> Absent]

\* the cache outlives the process: it is empty, or holds what one earlier
\* request for the current hot-100 chart stored in the empty cache
WarmCache ==
    GetChart(EmptyCache, StartTime, "hot-100", NoWeek, FALSE, TRUE,
             UpOk(Chart("hot-100", "2023-03-28", "Song A")),
             <<CatalogAnswer("Song A")>>, <<>>).cache

ElapseSteps == {RATE_LIMIT_TIMEOUT, DAY}

Init ==
    /\ now = StartTime
    /\ cache \in {EmptyCache, WarmCache}
    /\ last = NoLast
    /\ tripped = ""
    /\ nreq = 0
    /\ flight = NoFlight
    /\ nelapse = 0
    /\ amcache = EmptyAmCache
    /\ call = NoLookup
    /\ nlookup = 0
    /\ pool = IdlePool

\* params that always carry the week
UpstreamParams_AlwaysWeek(chart_id, week) == <<chart_id, week>>

\* params of requests.get: {'id': chart_id} plus 'week' when given
UpstreamParams(chart_id, week) ==
    IF week # NoWeek THEN <<chart_id, week>> ELSE <<chart_id>>

Request(chart_id, week, refresh, include, up) ==
    LET cached_data == CacheGet(cache, now, CacheKey(chart_id, week))
        out == GetChart(cache, now, chart_id, week, refresh, include, up,
                        AnswersFor(IF UpFailed(up) \/ up = NoUp THEN cached_data ELSE up.data),
                        AnswersFor(cached_data))
    IN  /\ nreq < MaxRequests
        /\ (up = NoUp) <=> ~out.fetched
        /\ nreq' = nreq + 1
        /\ cache' = out.cache
        /\ last' = [done |-> TRUE, id |-> chart_id, week |-> week,
                    refresh |-> refresh, include |-> include,
                    key |-> CacheKey(chart_id, week),
                    cached_data |-> out.cached_data,
                    limited |-> RateLimited(cache, now),
                    fetched |-> out.fetched,
                    up |-> up,
                    params |-> IF out.fetched THEN UpstreamParams(chart_id, week)
                               ELSE <<>>,
                    at |-> now,
                    resp |-> out.resp]
        /\ tripped' = IF ~out.fetched THEN tripped
                      ELSE IF up.kind = "http" /\ up.status = HTTP_TOO_MANY
                      THEN chart_id
                      ELSE IF up.kind = "ok" THEN "" ELSE tripped
        /\ UNCHANGED <<now, nelapse>>
        /\ UNCHANGED amvars
        /\ UNCHANGED <<pool, flight>>

\* time passes between requests; expired entries are gone
Elapse(d) ==
    /\ nelapse < MaxElapses
    /\ nelapse' = nelapse + 1
    /\ now' = now + d
    /\ cache' = Purge(cache, now + d)
    /\ last' = NoLast
    /\ tripped' = IF Live(cache, now + d, RATE_KEY) THEN tripped ELSE ""
    /\ UNCHANGED nreq
    /\ UNCHANGED amvars
    /\ UNCHANGED <<pool, flight>>

Next ==
    \/ \E tg \in Targets, refresh \in BOOLEAN, include \in BOOLEAN :
         \E up \in UpstreamFor(tg[1], tg[2]) \cup {NoUp} :
           Request(tg[1], tg[2], refresh, include, up)
    \/ \E d \in ElapseSteps : Elapse(d)

Spec == Init /\ [][Next]_vars

---------------------------------------------------------------------------
(* The state machine of AppleMusicService: calls of search_song and of     *)
(* get_token against the cache, with time passing between them             *)

WaitSteps == {SEARCH_FAILURE_TIMEOUT, APPLE_MUSIC_TOKEN_TIMEOUT, SEARCH_TIMEOUT}

AmInit ==
    /\ now = StartTime
    /\ cache = EmptyCache
    /\ last = NoLast
    /\ tripped = ""
    /\ nreq = 0
    /\ flight = NoFlight
    /\ nelapse = 0
    /\ amcache = EmptyAmCache
    /\ call = NoLookup
    /\ nlookup = 0
    /\ pool = IdlePool

Lookup(title, artist, creds, answer) ==
    LET out == SearchSong(amcache, now, title, artist, creds, answer)
    IN  /\ nlookup < MaxLookups
        \* the parameters that the run does not read are fixed
        /\ out.outbound \/ answer = "null"
        /\ (out.asked /\ ~Truthy(CacheGet(amcache, now, TOKEN_KEY))) \/ creds
        /\ nlookup' = nlookup + 1
        /\ amcache' = out.cache
        /\ call' = [done |-> TRUE, op |-> "search", key |-> SearchKey(title, artist),
                  creds |-> creds, answer |-> answer, hit |-> out.hit,
                  asked |-> out.asked, minted |-> out.minted, token |-> out.token,
                  outbound |-> out.outbound, result |-> out.result,
                  raised |-> out.raised, at |-> now]
        /\ UNCHANGED <<now, nelapse>>
        /\ UNCHANGED chartvars
        /\ UNCHANGED pool

Token(creds) ==
    LET out == GetToken(amcache, now, creds)
    IN  /\ nlookup < MaxLookups
        /\ ~Truthy(CacheGet(amcache, now, TOKEN_KEY)) \/ creds
        /\ nlookup' = nlookup + 1
        /\ amcache' = out.cache
        /\ call' = [done |-> TRUE, op |-> "token", key |-> TOKEN_KEY,
                  creds |-> creds, answer |-> "", hit |-> ~out.minted /\ Truthy(out.token),
                  asked |-> TRUE, minted |-> out.minted, token |-> out.token,
                  outbound |-> FALSE, result |-> NoneVal,
                  raised |-> out.raised, at |-> now]
        /\ UNCHANGED <<now, nelapse>>
        /\ UNCHANGED chartvars
        /\ UNCHANGED pool

Wait(d) ==
    /\ nelapse < MaxWaits
    /\ nelapse' = nelapse + 1
    /\ now' = now + d
    /\ amcache' = AmPurge(amcache, now + d)
    /\ call' = NoLookup
    /\ UNCHANGED nlookup
    /\ UNCHANGED chartvars
    /\ UNCHANGED pool

AmNext ==
    \/ \E p \in Pairs, creds \in BOOLEAN, answer \in CatalogAnswers :
         Lookup(p[1], p[2], creds, answer)
    \/ \E creds \in BOOLEAN : Token(creds)
    \/ \E d \in WaitSteps : Wait(d)

AmSpec == AmInit /\ [][AmNext]_vars

---------------------------------------------------------------------------
(* The state machine of one snapshot passed through enrich_chart_data, once *)
(* and again: the tasks of the pool start in order and finish in any order  *)

EnrichInit ==
    /\ now = StartTime
    /\ cache = EmptyCache
    /\ last = NoLast
    /\ tripped = ""
    /\ nreq = 0
    /\ flight = NoFlight
    /\ nelapse = 0
    /\ amcache = EmptyAmCache
    /\ call = NoLookup
    /\ nlookup = 0
    /\ \E s \in EnrichInputs : pool = [IdlePool EXCEPT !.input = s, !.data = s]

\* enrich_chart_data up to the submission of the tasks
Enrich ==
    LET data == pool.data
        songs == StandardizeAll(data.entries)
        std == [data EXCEPT !.entries = songs]
    IN  /\ pool.phase \in {"idle", "returned"}
        /\ pool.ncalls < MaxCalls
        /\ pool' =
             IF ~Truthy(data) \/ data.kind # "chart"
             THEN [pool EXCEPT !.phase = "returned", !.prev = data, !.tasks = <<>>,
                               !.ncalls = @ + 1, !.lookups = 0, !.overtaken = FALSE]
             ELSE IF Len(SongsToProcess(songs)) = 0
             THEN [pool EXCEPT !.phase = "returned", !.prev = data, !.data = std,
                               !.tasks = <<>>, !.ncalls = @ + 1, !.lookups = 0,
                               !.overtaken = FALSE]
             ELSE [pool EXCEPT !.phase = "pool", !.prev = data, !.data = std,
                               !.tasks = NewTasks(songs), !.ncalls = @ + 1,
                               !.lookups = 0, !.overtaken = FALSE]
        /\ UNCHANGED <<now, nelapse>>
        /\ UNCHANGED chartvars
        /\ UNCHANGED amvars

\* a worker takes task k and calls search_song
Start(k) ==
    /\ pool.phase = "pool"
    /\ k \in 1..Len(pool.tasks)
    /\ CanStart(pool.tasks, k)
    /\ pool' = [pool EXCEPT !.tasks[k].st = "running", !.lookups = @ + 1]
    /\ UNCHANGED <<now, nelapse>>
    /\ UNCHANGED chartvars
    /\ UNCHANGED amvars

\* the search_song of task k returns
Finish(k, answer) ==
    /\ pool.phase = "pool"
    /\ k \in 1..Len(pool.tasks)
    /\ pool.tasks[k].st = "running"
    /\ pool' = [pool EXCEPT !.tasks[k].st = "done",
                            !.tasks[k].answer = answer,
                            !.tasks[k].result = ResultFor(pool.tasks[k].title, answer),
                            !.overtaken = @ \/ \E j \in 1..(k - 1) :
                                                  pool.tasks[j].st = "running"]
    /\ UNCHANGED <<now, nelapse>>
    /\ UNCHANGED chartvars
    /\ UNCHANGED amvars

\* the results are zipped with songs_to_process and the data is returned
Collect ==
    /\ pool.phase = "pool"
    /\ CanCollect(pool.tasks)
    /\ pool' = [pool EXCEPT
                  !.phase = "returned",
                  !.data = EnrichChartData(pool.data,
                              [k \in 1..Len(pool.tasks) |-> pool.tasks[k].result])]
    /\ UNCHANGED <<now, nelapse>>
    /\ UNCHANGED chartvars
    /\ UNCHANGED amvars

EnrichNext ==
    \/ Enrich
    \/ \E k \in 1..MaxSongs + 1 : Start(k)
    \/ \E k \in 1..MaxSongs + 1, answer \in WorkerAnswers : Finish(k, answer)
    \/ Collect

EnrichSpec == EnrichInit /\ [][EnrichNext]_vars

---------------------------------------------------------------------------
(* Properties of get_chart.  `last` is the frame of the request that has   *)
(* just returned: its parameters, the cached_data it read, whether the     *)
(* flag was set and the time when it ran, the provider's answer and the    *)
(* response.  Snapshots are compared up to the apple_music field that      *)
(* enrichment injects; without enrichment they are compared as stored.     *)

\* the request ran on the designated refresh day
OnRefreshDay == Weekday(last.at) = TUESDAY

SameSnapshot(body, snapshot, include) ==
    /\ StripEnrichment(body) = StripEnrichment(snapshot)
    /\ (~include => body = snapshot)

ServedFromCache ==
    /\ ~last.fetched
    /\ last.up = NoUp
    /\ last.params = <<>>
    /\ last.resp.status = STATUS_OK
    /\ last.resp.cached
    /\ SameSnapshot(last.resp.body, last.cached_data, last.include)

HistoricalHit ==
    /\ last.done
    /\ last.week # NoWeek
    /\ ~last.refresh
    /\ Truthy(last.cached_data)

\* C1: a request for a past week without refresh that finds a snapshot under
\* its key returns that snapshot with status 200 and cached:true and makes no
\* upstream call, on any weekday and with the rate-limit flag set or not.
C1_HistoricalServeFromCache == HistoricalHit => ServedFromCache

\* C1 witness: a past week served from cache on a Tuesday, the day on which a
\* current chart would be revalidated.
C1_Witness == HistoricalHit /\ OnRefreshDay /\ ServedFromCache /\ last.include

CurrentHit ==
    /\ last.done
    /\ last.week = NoWeek
    /\ ~last.refresh
    /\ Truthy(last.cached_data)

\* C2: off the refresh day, every request for a current chart without refresh
\* that finds a snapshot makes no upstream call, returns 200 with cached:true
\* and leaves the cache as it was, so that any number of such requests in
\* succession are all served from cache.
C2_NoFetchOffRefreshDay ==
    [][(nreq' = nreq + 1 /\ CurrentHit' /\ Weekday(now) # TUESDAY)
         => (ServedFromCache' /\ cache' = cache)]_vars

\* C2 witness: the second of two requests has been served from cache on a
\* day that is not Tuesday.
C2_Witness ==
    CurrentHit /\ ~OnRefreshDay /\ ServedFromCache /\ nreq = 2

RateLimitNote == "API rate limited, serving cached data"

\* C3: on the refresh day, while the rate-limit flag is set, a request for a
\* current chart without refresh that finds a snapshot is served from cache
\* with cached:true and the rate-limit note and makes no upstream call,
\* whichever chart received the 429.
C3_BreakerOnRefreshDay ==
    (CurrentHit /\ OnRefreshDay /\ last.limited)
        => (ServedFromCache /\ last.resp.note = RateLimitNote)

\* C3 witness: a chart served with the note on a Tuesday while the flag set
\* by the 429 of another chart is present.
C3_Witness ==
    /\ CurrentHit /\ OnRefreshDay /\ last.limited
    /\ last.resp.note = RateLimitNote
    /\ tripped \in ChartIds
    /\ tripped # last.id

\* C4 as stated: while the rate-limit flag is present no request makes an
\* upstream call, whatever its parameters and whether or not a snapshot is
\* cached.
C4_FlagSuppressesAllFetches == (last.done /\ last.limited) => ~last.fetched

\* C4 as amended: while the rate-limit flag is present, a request makes an
\* upstream call exactly when it asks for a refresh or finds no snapshot under
\* its key; every other request is served from cache with the rate-limit
\* note.
C4_FlagSuppressesRevalidation ==
    (last.done /\ last.limited)
        => /\ last.fetched <=> (last.refresh \/ ~Truthy(last.cached_data))
           /\ ~last.fetched => (ServedFromCache /\ last.resp.note = RateLimitNote)

\* C4 witness: within the cooldown of a 429 a cached chart has been served
\* with the note, no upstream call made.
C4_Witness ==
    /\ last.done /\ last.limited /\ ~last.fetched
    /\ last.resp.note = RateLimitNote
    /\ Live(cache, now, RATE_KEY)
    /\ cache[RATE_KEY].exp = now + RATE_LIMIT_TIMEOUT

\* the note of a fallback response, for each failure of the provider
ExpectedNote(up) ==
    CASE up = UpHttp(HTTP_TOO_MANY) -> "API rate limit exceeded, serving cached data"
      [] up = UpHttp(HTTP_SERVER_ERROR) -> "API error: Status code 500, serving cached data"
      [] up = UpOther("timeout") -> "Timeout: Read timed out, serving cached data"
      [] up = UpOther("badjson") -> "API error: Expecting value, serving cached data"
      [] up = UpOther("errorbody") -> "Chart not found, serving cached data"
      [] up = UpOther("notdict") -> "Invalid response format, serving cached data"
      [] OTHER -> NoNote

FetchFailure == last.done /\ last.fetched /\ UpFailed(last.up)

\* C5: when a request fetches, a snapshot is cached under its key and the
\* fetch fails in any way, the response is 200 with cached:true, a note that
\* names the failure, and the entries of the cached snapshot.
C5_FallbackOnError ==
    (FetchFailure /\ Truthy(last.cached_data))
        => /\ last.resp.status = STATUS_OK
           /\ last.resp.cached
           /\ last.resp.note # NoNote
           /\ last.resp.note = ExpectedNote(last.up)
           /\ SameSnapshot(last.resp.body, last.cached_data, last.include)

\* C5 witness: a forced refresh of a cached chart has met a timeout and the
\* cached snapshot has been served.
C5_Witness ==
    /\ FetchFailure /\ Truthy(last.cached_data) /\ last.refresh
    /\ last.up = UpOther("timeout")
    /\ last.resp.cached

\* C6: a request returns 503, with an error and cached:false, exactly when its
\* upstream fetch failed and it had read no snapshot under its key; every
\* other request returns 200.
C6_HardFailureOnlyWithoutFallback ==
    last.done
        => /\ last.resp.status \in {STATUS_OK, STATUS_UNAVAILABLE}
           /\ (last.resp.status = STATUS_UNAVAILABLE)
                <=> (FetchFailure /\ ~Truthy(last.cached_data))
           /\ (last.resp.status = STATUS_UNAVAILABLE)
                => (last.resp.error # "" /\ ~last.resp.cached)

\* C6 witness: a failed fetch with nothing cached has returned 503.
C6_Witness ==
    /\ FetchFailure /\ ~Truthy(last.cached_data)
    /\ last.resp.status = STATUS_UNAVAILABLE
    /\ last.resp.error = "API error: Status code 500"

HistoricalKeys == {CacheKey(tg[1], tg[2]) : tg \in {x \in Targets : x[2] # NoWeek}}

\* C7 as stated: once a snapshot is cached under a historical key, no request,
\* forced refresh included, changes the chart stored under that key.
C7_HistoricalNeverOverwritten ==
    [][(nreq' = nreq + 1)
         => \A k \in HistoricalKeys :
              Live(cache, now, k)
                => StripEnrichment(cache'[k].val) = StripEnrichment(cache[k].val)]_vars

\* C7 as amended: while a snapshot is cached under a historical key, no
\* request without refresh=true changes what is stored under that key, value
\* or expiry; only a forced refresh replaces it, by the provider's answer.
C7_HistoricalKeptWithoutRefresh ==
    [][(nreq' = nreq + 1 /\ ~last'.refresh)
         => \A k \in HistoricalKeys : Live(cache, now, k) => cache'[k] = cache[k]]_vars

\* C7 witness: a fetch for a current chart has succeeded while a past week is
\* cached.
C7_Witness ==
    /\ last.done /\ ~last.refresh /\ last.week = NoWeek
    /\ last.fetched /\ last.up.kind = "ok"
    /\ \E k \in HistoricalKeys : Live(cache, now, k)

RateLimitHit == last.done /\ last.fetched /\ last.up = UpHttp(HTTP_TOO_MANY)

\* C8: every upstream answer with status 429 sets the rate-limit flag for 300
\* seconds and is handled as a failed fetch: the cached snapshot if there is
\* one, else 503.
C8_RateLimitTripsBreaker ==
    RateLimitHit
        => /\ cache[RATE_KEY] = [val |-> TrueVal, exp |-> last.at + RATE_LIMIT_TIMEOUT]
           /\ RateLimited(cache, now)
           /\ IF Truthy(last.cached_data)
              THEN /\ last.resp.status = STATUS_OK /\ last.resp.cached
                   /\ SameSnapshot(last.resp.body, last.cached_data, last.include)
              ELSE /\ last.resp.status = STATUS_UNAVAILABLE
                   /\ last.resp.status_code = HTTP_TOO_MANY

\* C8 witness: a 429 with nothing cached has set the flag and returned 503.
C8_Witness ==
    /\ RateLimitHit /\ ~last.limited
    /\ last.resp.status = STATUS_UNAVAILABLE
    /\ Live(cache, now, RATE_KEY)

\* C9: after a request whose upstream fetch returned a valid payload the
\* rate-limit flag is absent, whether it was set before or not and whether
\* the request was for a past week or for the current chart.
C9_SuccessClosesBreaker ==
    (last.done /\ last.fetched /\ last.up.kind = "ok")
        => (cache[RATE_KEY] = Absent /\ ~RateLimited(cache, now))

\* C9 witness: a successful fetch of a past week made while the flag was set.
C9_Witness ==
    /\ last.done /\ last.fetched /\ last.up.kind = "ok"
    /\ last.limited /\ last.week # NoWeek
    /\ cache[RATE_KEY] = Absent

\* a current-chart fetch on the refresh day has returned the cached chart date
SameDateFetch ==
    /\ last.done
    /\ last.week = NoWeek
    /\ OnRefreshDay
    /\ last.fetched
    /\ last.up.kind = "ok"
    /\ Truthy(last.cached_data)
    /\ ChartDate(last.up.data) = ChartDate(last.cached_data)

\* the old snapshot is returned and stored again for one hour
SameDateNoOp ==
    /\ last.resp.status = STATUS_OK
    /\ last.resp.cached
    /\ last.resp.note = "No new chart data yet"
    /\ SameSnapshot(last.resp.body, last.cached_data, last.include)
    /\ cache[last.key] = [val |-> last.resp.body, exp |-> last.at + ONE_HOUR]

\* C10 as stated: whenever a current-chart fetch on the refresh day returns
\* the chart date of the cached snapshot, the old snapshot is returned with
\* cached:true and "No new chart data yet" and stored again for one hour.
C10_SameDateAlwaysNoOp == SameDateFetch => SameDateNoOp

\* C10 as amended: the same, for fetches made without refresh=true; a forced
\* refresh stores and returns the fetched snapshot.
C10_SameDateNoOpWithoutRefresh == (SameDateFetch /\ ~last.refresh) => SameDateNoOp

\* C10 witness: the provider's answer has the cached date but other entries,
\* and the old snapshot has been returned and stored for an hour.
C10_Witness ==
    /\ SameDateFetch /\ ~last.refresh /\ SameDateNoOp
    /\ StripEnrichment(last.up.data) # StripEnrichment(last.cached_data)

\* what a successful fetch returns and stores: the payload, enriched on request
FreshBody == IF last.include
             THEN EnrichChartData(last.up.data, AnswersFor(last.up.data))
             ELSE last.up.data

CurrentFetchOk ==
    last.done /\ last.week = NoWeek /\ last.fetched /\ last.up.kind = "ok"

\* C11: after a successful current-chart fetch whose chart date differs from
\* the cached one, or with nothing cached, the fetched snapshot is stored
\* under the current key for one week and returned with cached:false.
C11_NewDataKeptForAWeek ==
    (CurrentFetchOk
       /\ (~Truthy(last.cached_data)
             \/ ChartDate(last.up.data) # ChartDate(last.cached_data)))
        => /\ last.resp.status = STATUS_OK
           /\ ~last.resp.cached
           /\ last.resp.body = FreshBody
           /\ cache[last.key] = [val |-> FreshBody, exp |-> last.at + ONE_WEEK]

\* C11 witness: on the refresh day, without refresh=true, the provider has
\* answered with a newer chart date than the cached one.
C11_Witness ==
    /\ CurrentFetchOk /\ OnRefreshDay /\ ~last.refresh
    /\ Truthy(last.cached_data)
    /\ ChartDate(last.up.data) # ChartDate(last.cached_data)
    /\ cache[last.key].exp = last.at + ONE_WEEK

\* C12 as stated: a snapshot stored under a historical key has no expiry; it
\* stays cached whatever time passes.
C12_HistoricalNeverExpires ==
    [][\A k \in HistoricalKeys : Live(cache, now, k) => Live(cache', now', k)]_vars

\* C12 witness: a past week has just been stored, with the default time to live.
C12_Witness ==
    /\ last.done /\ last.week # NoWeek /\ last.fetched /\ last.up.kind = "ok"
    /\ cache[last.key].exp = last.at + CACHE_DEFAULT_TIMEOUT

ColdCurrentOk == CurrentFetchOk /\ ~Truthy(last.cached_data)

ColdThenRepeat ==
    /\ ColdCurrentOk /\ ~last.refresh
    /\ nreq' = nreq + 1
    /\ last'.id = last.id /\ last'.week = last.week
    /\ last'.refresh = last.refresh /\ last'.include = last.include

ColdAnswer ==
    ColdCurrentOk
        => /\ last.resp.status = STATUS_OK
           /\ ~last.resp.cached
           /\ last.params = <<last.id>>

HistoricalRepeat ==
    /\ last.done /\ last.week # NoWeek /\ last.resp.status = STATUS_OK
    /\ nreq' = nreq + 1
    /\ last'.id = last.id /\ last'.week = last.week
    /\ last'.refresh = last.refresh /\ last'.include = last.include
    /\ last'.resp.status = STATUS_OK

\* C14 as stated: two successive successful requests for a past week with
\* identical parameters return identical entries, the second cached:true.
C14_HistoricalIdempotent ==
    [][HistoricalRepeat
         => (last'.resp.cached /\ last'.resp.body = last.resp.body)]_vars

\* C14 as amended: the same for requests without refresh=true, the second
\* made while the entry is still cached.
C14_HistoricalIdempotentWithoutRefresh ==
    [][(HistoricalRepeat /\ ~last.refresh)
         => (last'.resp.cached /\ ~last'.fetched
             /\ last'.resp.body = last.resp.body)]_vars

\* C14 witness: an enriched past week stored a moment ago has been served
\* again from cache.
C14_Witness ==
    /\ last.done /\ nreq = 2 /\ last.week # NoWeek
    /\ ~last.refresh /\ last.include
    /\ ~last.fetched /\ last.resp.cached
    /\ cache[last.key].exp = last.at + CACHE_DEFAULT_TIMEOUT
    /\ \E i \in 1..Len(last.resp.body.entries) : last.resp.body.entries[i].am # "missing"

\* C15: a request with refresh=true that finds a cached snapshot calls the
\* provider; when the call succeeds the response is the fetched snapshot with
\* cached:false and the entry of the key is replaced by it.
C15_RefreshBypassesCache ==
    (last.done /\ last.refresh /\ Truthy(last.cached_data))
        => /\ last.fetched
           /\ last.params = UpstreamParams(last.id, last.week)
           /\ last.up.kind = "ok"
                => /\ last.resp.status = STATUS_OK
                   /\ ~last.resp.cached
                   /\ last.resp.body = FreshBody
                   /\ cache[last.key].val = FreshBody
                   /\ cache[last.key].exp = last.at +
                        (IF last.week # NoWeek THEN CACHE_DEFAULT_TIMEOUT ELSE ONE_WEEK)

\* C15 witness: a forced refresh on the refresh day has replaced the cached
\* chart by another one of the same date.
C15_Witness ==
    /\ CurrentFetchOk /\ last.refresh /\ OnRefreshDay
    /\ Truthy(last.cached_data)
    /\ ChartDate(last.up.data) = ChartDate(last.cached_data)
    /\ StripEnrichment(last.up.data) # StripEnrichment(last.cached_data)
    /\ cache[last.key].val = FreshBody

---------------------------------------------------------------------------
(* Properties of search_song and get_token, under AmSpec.  `call` is the   *)
(* frame of the call that has just returned.                               *)

SearchStep == nlookup' = nlookup + 1 /\ call'.op = "search"

\* a search that reached the catalog and found no song
NoMatchLookup ==
    call.done /\ call.op = "search" /\ call.outbound /\ call.answer = "null"

\* a search whose outbound call failed
FailedLookup ==
    call.done /\ call.op = "search" /\ call.outbound /\ call.answer = "fail"

\* C16 as stated: a lookup without a catalog match stores a "no result"
\* value under the search key for 24 hours, and a repeated lookup of the
\* pair is a cache hit that issues no outbound call and returns "no result".
C16_NegativeLookupIsCached ==
    /\ [](NoMatchLookup
            => /\ call.result = NoneVal
               /\ amcache[call.key] = [val |-> NoneVal, exp |-> call.at + SEARCH_TIMEOUT])
    /\ [][(NoMatchLookup /\ SearchStep /\ call'.key = call.key)
            => (call'.hit /\ ~call'.outbound /\ call'.result = NoneVal)]_vars

\* C16 witness: a lookup without a match has stored None for 24 hours.
C16_Witness ==
    /\ NoMatchLookup
    /\ Live(amcache, now, call.key)
    /\ amcache[call.key].val = NoneVal
    /\ amcache[call.key].exp = call.at + SEARCH_TIMEOUT

\* C17: a lookup that found a song stores the result for 24 hours, and while
\* it is stored every lookup of the pair returns that result, issues no
\* outbound call and asks for no token.
C17_PositiveLookupIsCached ==
    /\ []((call.done /\ call.op = "search" /\ call.outbound /\ Truthy(call.result))
            => amcache[call.key] = [val |-> call.result, exp |-> call.at + SEARCH_TIMEOUT])
    /\ [][(SearchStep /\ Live(amcache, now, call'.key) /\ Truthy(amcache[call'.key].val))
            => /\ call'.hit
               /\ call'.result = amcache[call'.key].val
               /\ ~call'.outbound /\ ~call'.asked /\ ~call'.minted
               /\ amcache' = amcache]_vars

\* C17 witness: a result has been served from cache after the token expired.
C17_Witness ==
    /\ call.done /\ call.op = "search" /\ call.hit /\ Truthy(call.result)
    /\ ~Live(amcache, now, TOKEN_KEY)
    /\ now >= StartTime + APPLE_MUSIC_TOKEN_TIMEOUT

\* C18: a lookup that misses the cache and gets no token returns "no result",
\* issues no outbound call and writes nothing to the cache.
C18_NoPoisoningWithoutToken ==
    [][(SearchStep /\ ~call'.hit /\ ~Truthy(call'.token))
         => /\ call'.result = NoneVal
            /\ ~call'.outbound
            /\ amcache' = amcache]_vars

\* C18 witness: a lookup without credentials has returned with the search
\* key absent.
C18_Witness ==
    /\ call.done /\ call.op = "search" /\ call.asked /\ ~Truthy(call.token)
    /\ call.result = NoneVal
    /\ amcache[call.key] = Absent

\* C19 as stated: a failed outbound search returns "no result" and stores a
\* "no result" entry under the search key for five minutes, so that a retry
\* for the pair in that window issues no outbound call.
C19_FailureThrottlesRetries ==
    /\ [](FailedLookup
            => /\ call.result = NoneVal
               /\ amcache[call.key] = [val |-> NoneVal,
                                       exp |-> call.at + SEARCH_FAILURE_TIMEOUT])
    /\ [][(FailedLookup /\ SearchStep /\ call'.key = call.key) => ~call'.outbound]_vars

\* C19 witness: a failed search has stored None for five minutes.
C19_Witness ==
    /\ FailedLookup
    /\ call.result = NoneVal
    /\ amcache[call.key] = [val |-> NoneVal, exp |-> call.at + SEARCH_FAILURE_TIMEOUT]

\* C20: get_token returns the cached token while one is cached; otherwise it
\* mints one that expires 12 hours later and caches it for 11 hours; every
\* token returned, to a caller or to search_song, is returned strictly before
\* its expiry.
C20_TokenFreshness ==
    /\ []((call.done /\ Truthy(call.token)) => call.at < call.token.exp)
    /\ []((call.done /\ call.minted)
            => /\ call.token = MintToken(call.at)
               /\ call.token.exp = call.at + TOKEN_LIFETIME
               /\ amcache[TOKEN_KEY] = [val |-> call.token,
                                        exp |-> call.at + APPLE_MUSIC_TOKEN_TIMEOUT])
    /\ [][(nlookup' = nlookup + 1 /\ call'.op = "token")
            => IF Live(amcache, now, TOKEN_KEY)
               THEN /\ call'.token = amcache[TOKEN_KEY].val
                    /\ ~call'.minted
                    /\ amcache' = amcache
               ELSE call'.creds => call'.minted]_vars

\* C20 witness: get_token has returned a token minted at an earlier time.
C20_Witness ==
    /\ call.done /\ call.op = "token" /\ ~call.minted
    /\ Truthy(call.token)
    /\ call.token.iat < call.at

\* C21: when minting fails get_token returns None, raises nothing to its
\* caller and leaves the cache, the token key included, as it was: unset.
C21_MintFailureContained ==
    [][(nlookup' = nlookup + 1 /\ call'.op = "token"
          /\ ~Truthy(CacheGet(amcache, now, TOKEN_KEY)) /\ ~call'.creds)
         => /\ call'.token = NoneVal
            /\ ~call'.raised
            /\ ~call'.minted
            /\ amcache' = amcache
            /\ CacheGet(amcache', now', TOKEN_KEY) = NoneVal]_vars

\* C21 witness: get_token has failed to mint after an earlier token expired.
C21_Witness ==
    /\ call.done /\ call.op = "token" /\ ~call.creds
    /\ call.token = NoneVal /\ ~call.raised
    /\ amcache[TOKEN_KEY] = Absent
    /\ now >= StartTime + APPLE_MUSIC_TOKEN_TIMEOUT

---------------------------------------------------------------------------
(* Properties of enrich_chart_data, under EnrichSpec.  pool.prev is the    *)
(* data the running or last call was given, pool.data its data now.        *)

IsSnapshot(data) == Truthy(data) /\ data.kind = "chart"

Missing(data) == {i \in 1..Len(data.entries) : data.entries[i].am = "missing"}

FirstReturned == pool.phase = "returned" /\ pool.ncalls = 1 /\ IsSnapshot(pool.input)

\* C22: whatever the order in which the lookups complete, each entry without
\* apple_music receives the result of the lookup made for its own title, and
\* the entries keep their order.
C22_PositionalPairing ==
    FirstReturned
        => /\ Len(pool.data.entries) = Len(pool.input.entries)
           /\ \A i \in 1..Len(pool.input.entries) :
                /\ pool.data.entries[i].title = pool.input.entries[i].title
                /\ i \in Missing(pool.input)
                     => \E k \in 1..Len(pool.tasks) :
                          /\ pool.tasks[k].title = pool.input.entries[i].title
                          /\ pool.tasks[k].st = "done"
                          /\ pool.data.entries[i].am =
                               ResultFor(pool.input.entries[i].title, pool.tasks[k].answer)

\* C22 witness: a later lookup completed before an earlier one, both found
\* their song, and the call has returned.
C22_Witness ==
    /\ FirstReturned /\ pool.overtaken
    /\ Cardinality({k \in 1..Len(pool.tasks) : pool.tasks[k].answer = "found"}) >= 2
    /\ \E i \in Missing(pool.input), j \in 1..Len(pool.input.entries) :
          j < i /\ pool.input.entries[j].am # "missing"

\* C23: at no instant of an enrich call are more than 5 of its lookups in
\* flight.
C23_BoundedConcurrency == Cardinality(Running(pool.tasks)) <= MAX_WORKERS

\* C23 witness: five lookups are in flight and a sixth waits in the queue.
C23_Witness ==
    /\ pool.phase = "pool"
    /\ Cardinality(Running(pool.tasks)) = MAX_WORKERS
    /\ \E k \in 1..Len(pool.tasks) : pool.tasks[k].st = "queued"

\* C24: lookups are issued only for entries without the apple_music field;
\* an entry that carries one, None included, triggers no lookup and keeps it,
\* with the artwork url standardized.
C24_EnrichedNeverLookedUp ==
    IsSnapshot(pool.prev)
        => /\ \A k \in 1..Len(pool.tasks) : pool.tasks[k].idx \in Missing(pool.prev)
           /\ pool.lookups <= Cardinality(Missing(pool.prev))
           /\ pool.phase = "returned"
                => /\ pool.lookups = Cardinality(Missing(pool.prev))
                   /\ \A i \in 1..Len(pool.prev.entries) :
                        i \notin Missing(pool.prev)
                          => pool.data.entries[i].am =
                               StandardizeArtwork(pool.prev.entries[i].am)

\* C24 witness: a snapshot with a null, a raw and a missing entry has been
\* enriched with one lookup per missing entry.
C24_Witness ==
    /\ FirstReturned
    /\ \E i, j \in 1..Len(pool.input.entries) :
          pool.input.entries[i].am = "null" /\ pool.input.entries[j].am = "raw"
    /\ Missing(pool.input) # {}
    /\ pool.lookups = Cardinality(Missing(pool.input))
    /\ ~pool.overtaken

\* C25: enrich applied to its own output returns it unchanged and issues no
\* lookup.
C25_EnrichIdempotent ==
    (pool.phase = "returned" /\ pool.ncalls = 2)
        => /\ pool.data = pool.prev
           /\ pool.lookups = 0
           /\ pool.tasks = <<>>

\* C25 witness: a snapshot with raw and missing entries has been enriched
\* twice.
C25_Witness ==
    /\ pool.phase = "returned" /\ pool.ncalls = 2
    /\ IsSnapshot(pool.input)
    /\ Missing(pool.input) # {}
    /\ \E i \in 1..Len(pool.input.entries) : pool.input.entries[i].am = "raw"
    /\ pool.data # pool.input

\* C30: a lookup that fails or times out leaves None on its own entry only;
\* every other entry of the batch receives the result of its own lookup, and
\* the call returns only after every dispatched lookup has completed.
C30_SiblingIsolation ==
    (pool.phase = "returned" /\ IsSnapshot(pool.prev))
        => \A k \in 1..Len(pool.tasks) :
             /\ pool.tasks[k].st = "done"
             /\ pool.data.entries[pool.tasks[k].idx].am =
                  (IF pool.tasks[k].answer = "fail" THEN "null"
                   ELSE "std:" \o pool.tasks[k].title)

\* C30 witness: the first lookup of a batch failed, the others found their
\* songs, and the call has returned.
C30_Witness ==
    /\ pool.phase = "returned" /\ pool.ncalls = 1
    /\ Len(pool.tasks) >= 3
    /\ pool.tasks[1].answer = "fail"
    /\ \A k \in 2..Len(pool.tasks) : pool.tasks[k].answer = "found"
    /\ pool.data.entries[pool.tasks[1].idx].am = "null"

---------------------------------------------------------------------------
(* get_chart over unvalidated parameters: request.args.get('id') and
   request.args.get('week') are used as they arrive *)

RawIds == {"hot-100", "hot-100:2022-01-01", "rate_limited"}

RawWeeks == {NoWeek, "2022-01-01"}

RawKeys == {CacheKey(id, week) : id \in RawIds, week \in RawWeeks} \cup {RATE_KEY}

KeyInit ==
    /\ now = StartTime
    /\ cache = [k \in RawKeys |-> Absent]
    /\ last = NoLast
    /\ tripped = ""
    /\ nreq = 0
    /\ flight = NoFlight
    /\ nelapse = 0
    /\ amcache = EmptyAmCache
    /\ call = NoLookup
    /\ nlookup = 0
    /\ pool = IdlePool

KeyNext ==
    \E id \in RawIds, week \in RawWeeks, refresh \in BOOLEAN :
      \E up \in UpstreamFor(id, week) \cup {NoUp} :
        Request(id, week, refresh, FALSE, up)

KeySpec == KeyInit /\ [][KeyNext]_vars

---------------------------------------------------------------------------
(* The state machine of concurrent requests for the current hot-100 chart *)

FlightInit ==
    /\ now = StartTime
    /\ cache = EmptyCache
    /\ last = NoLast
    /\ tripped = ""
    /\ nreq = 0
    /\ flight = NoFlight
    /\ nelapse = 0
    /\ amcache = EmptyAmCache
    /\ call = NoLookup
    /\ nlookup = 0
    /\ pool = IdlePool

\* a request arrives at worker p, which reads the parameters and the cache
Arrive(p, refresh) ==
    /\ nreq < MaxStarts
    /\ flight.procs[p].pc \in {"idle", "done"}
    /\ nreq' = nreq + 1
    /\ flight' = [flight EXCEPT !.procs[p] =
                     [IdleProc EXCEPT !.pc = "decide", !.refresh = refresh,
                                      !.cached_data = CacheGet(cache, now, CurrentKey),
                                      !.seen = flight.stores]]
    /\ UNCHANGED <<now, cache, last, tripped, nelapse, amvars, pool>>

\* need_api_call, which reads the flag
Decide(p) ==
    LET q == flight.procs[p]
        need == NeedApiCall(q.refresh, q.cached_data, NoWeek, cache, now)
    IN  /\ q.pc = "decide"
        /\ flight' = [flight EXCEPT !.procs[p].need = need,
                                    !.procs[p].pc = IF need THEN "call" ELSE "serve"]
        /\ UNCHANGED <<now, cache, last, tripped, nreq, nelapse, amvars, pool>>

\* the cached branch returns
Serve(p) ==
    /\ flight.procs[p].pc = "serve"
    /\ flight' = [flight EXCEPT !.procs[p].pc = "done"]
    /\ UNCHANGED <<now, cache, last, tripped, nreq, nelapse, amvars, pool>>

\* the provider answers with the chart it has published
AnswerOk(p, payload) ==
    /\ flight.procs[p].pc = "call"
    /\ payload.date = Dates[flight.published]
    /\ flight' = [flight EXCEPT !.procs[p].up = UpOk(payload),
                                !.procs[p].pc = "clear"]
    /\ UNCHANGED <<now, cache, last, tripped, nreq, nelapse, amvars, pool>>

\* the call fails and the except branch runs: nothing blocks between the
\* exception and the cache.set of the flag
AnswerFailed(p, up) ==
    /\ flight.procs[p].pc = "call"
    /\ cache' = TripBreaker(cache, now, up)
    /\ flight' = [flight EXCEPT
                    !.procs[p].up = up,
                    !.procs[p].pc = "done",
                    !.seen429 = @ \/ up = UpHttp(HTTP_TOO_MANY),
                    !.last429 = IF up = UpHttp(HTTP_TOO_MANY) THEN now ELSE @]
    /\ UNCHANGED <<now, last, tripped, nreq, nelapse, amvars, pool>>

\* cache.delete of the flag
Clear(p) ==
    /\ flight.procs[p].pc = "clear"
    /\ cache' = ClearBreaker(cache)
    /\ flight' = [flight EXCEPT !.procs[p].pc = "store"]
    /\ UNCHANGED <<now, last, tripped, nreq, nelapse, amvars, pool>>

\* enrichment is over; cache.set of the snapshot and return
Store(p) ==
    /\ flight.procs[p].pc = "store"
    /\ cache' = StoreFetched(cache, now, flight.procs[p])
    /\ flight' = [flight EXCEPT !.procs[p].pc = "done", !.stores = @ + 1]
    /\ UNCHANGED <<now, last, tripped, nreq, nelapse, amvars, pool>>

\* the provider publishes the next chart
Publish ==
    /\ flight.published < Len(Dates)
    /\ flight' = [flight EXCEPT !.published = @ + 1]
    /\ UNCHANGED <<now, cache, last, tripped, nreq, nelapse, amvars, pool>>

\* time passes, also while requests are in flight
Tick(d) ==
    /\ nelapse < MaxElapses
    /\ nelapse' = nelapse + 1
    /\ now' = now + d
    /\ cache' = Purge(cache, now + d)
    /\ UNCHANGED <<last, tripped, nreq, flight, amvars, pool>>

FlightNext ==
    \/ \E p \in Procs, refresh \in BOOLEAN : Arrive(p, refresh)
    \/ \E p \in Procs : Decide(p)
    \/ \E p \in Procs : Serve(p)
    \/ \E p \in Procs, payload \in PayloadsFor("hot-100", NoWeek) : AnswerOk(p, payload)
    \/ \E p \in Procs, up \in FlightFailures : AnswerFailed(p, up)
    \/ \E p \in Procs : Clear(p)
    \/ \E p \in Procs : Store(p)
    \/ Publish
    \/ \E d \in ElapseSteps : Tick(d)

FlightSpec == FlightInit /\ [][FlightNext]_vars

---------------------------------------------------------------------------
(* Properties of get_chart with enrichment, under Spec *)

RequestStep == nreq' = nreq + 1

\* the answers of search_song when every lookup fails
FailedAnswersFor(data) == [k \in 1..Len(AnswersFor(data)) |-> "null"]

\* the run of the request that has just returned, had every lookup failed
WithFailedLookups ==
    GetChart(cache, now, last'.id, last'.week, last'.refresh, last'.include, last'.up,
             FailedAnswersFor(IF UpFailed(last'.up) \/ last'.up = NoUp
                              THEN last'.cached_data ELSE last'.up.data),
             FailedAnswersFor(last'.cached_data))

\* C26: with enrichment requested, the failure of the lookups leaves the
\* status, the cached flag, the note and the chart of the response as they
\* are when the lookups succeed; only apple_music fields become None.
C26_EnrichmentFailureContained ==
    [][(RequestStep /\ last'.include)
         => LET alt == WithFailedLookups
            IN  /\ alt.fetched = last'.fetched
                /\ alt.resp.status = last'.resp.status
                /\ alt.resp.cached = last'.resp.cached
                /\ alt.resp.note = last'.resp.note
                /\ StripEnrichment(alt.resp.body) = StripEnrichment(last'.resp.body)
                /\ alt.resp.body.kind = "chart"
                     => \A i \in 1..Len(alt.resp.body.entries) :
                          alt.resp.body.entries[i].am
                            \in {"null", last'.resp.body.entries[i].am}]_vars

\* C26 witness: a fetched chart whose lookup returned None has been returned
\* with status 200 and cached:false.
C26_Witness ==
    /\ last.done /\ last.include /\ last.fetched /\ last.up.kind = "ok"
    /\ last.resp.status = STATUS_OK /\ ~last.resp.cached
    /\ last.resp.body.entries[1].am = "null"
    /\ last.week = NoWeek /\ ~OnRefreshDay

Enriched(data) ==
    /\ data.kind = "chart"
    /\ \A i \in 1..Len(data.entries) : data.entries[i].am # "missing"

\* C27 as stated: after any request with enrichment requested that returns
\* a current-chart snapshot with status 200, the snapshot stored under the
\* key carries apple_music on its entries.
C27_StoredSnapshotIsEnriched ==
    (last.done /\ last.include /\ last.week = NoWeek /\ last.resp.status = STATUS_OK)
        => (Live(cache, now, last.key) /\ Enriched(cache[last.key].val))

\* C27 witness: a fetch with enrichment requested has stored the enriched
\* snapshot it returned.
C27_Witness ==
    /\ last.done /\ last.include /\ last.week = NoWeek
    /\ last.fetched /\ last.up.kind = "ok" /\ ~last.resp.cached
    /\ Enriched(cache[last.key].val)
    /\ cache[last.key].val = last.resp.body

PayloadError == last'.fetched /\ last'.up.kind \in {"errorbody", "notdict"}

\* C28: a 2xx answer whose body is no JSON object or holds an "error" field
\* is handled as a timeout is: the cache is left as it was, chart key and
\* rate-limit flag included, and the response is the cached snapshot with
\* 200, cached:true and a note if there is one, else 503.
C28_PayloadErrorIsFailure ==
    [][(RequestStep /\ PayloadError)
         => LET alt == GetChart(cache, now, last'.id, last'.week, last'.refresh,
                                last'.include, UpOther("timeout"),
                                AnswersFor(last'.cached_data),
                                AnswersFor(last'.cached_data))
            IN  /\ cache' = cache
                /\ alt.cache = cache'
                /\ alt.resp.status = last'.resp.status
                /\ alt.resp.cached = last'.resp.cached
                /\ alt.resp.body = last'.resp.body
                /\ IF Truthy(last'.cached_data)
                   THEN /\ last'.resp.status = STATUS_OK
                        /\ last'.resp.cached
                        /\ last'.resp.note # NoNote
                        /\ SameSnapshot(last'.resp.body, last'.cached_data, last'.include)
                   ELSE /\ last'.resp.status = STATUS_UNAVAILABLE
                        /\ ~last'.resp.cached]_vars

\* C28 witness: an error body has arrived while the flag was set, and the
\* flag is still set.
C28_Witness ==
    /\ last.done /\ last.fetched /\ last.up.kind = "errorbody"
    /\ last.limited /\ RateLimited(cache, now)
    /\ cache[RATE_KEY].exp = last.at + RATE_LIMIT_TIMEOUT

\* the shared cache as search_song sees it during a request: the flag as
\* get_chart left it
FlagView(c) == [k \in AmKeys |-> IF k = RATE_KEY THEN c[RATE_KEY] ELSE Absent]

\* the titles of the entries enrichment looks up for a response body
LookedUp(body) ==
    IF body.kind # "chart" THEN {}
    ELSE {p \in Pairs : \E i \in 1..Len(body.entries) : body.entries[i].title = p[1]}

\* C29: a failed chart fetch that is not a 429 leaves the rate-limit flag as
\* it was, set or not; and a failed catalog search, a catalog 429 included,
\* writes only its own search key and the token key, never the flag.
C29_OnlyChart429TouchesBreaker ==
    [][RequestStep
         => /\ (last'.fetched /\ UpFailed(last'.up) /\ last'.up # UpHttp(HTTP_TOO_MANY))
                 => cache'[RATE_KEY] = cache[RATE_KEY]
            /\ last'.include
                 => \A p \in LookedUp(last'.resp.body), answer \in CatalogFailures :
                      LET view == FlagView(cache')
                          out == SearchSong(view, now, p[1], p[2], TRUE, answer)
                      IN  /\ out.outbound
                          /\ \A k \in AmKeys \ {SearchKey(p[1], p[2]), TOKEN_KEY} :
                               out.cache[k] = view[k]]_vars

\* C29 witness: with the flag set, a chart fetch has failed with status 500
\* during a request with enrichment, and the flag is as it was.
C29_Witness ==
    /\ last.done /\ last.include /\ last.fetched
    /\ last.up = UpHttp(HTTP_SERVER_ERROR)
    /\ last.limited /\ RateLimited(cache, now)
    /\ last.resp.status = STATUS_OK

\* C33: a request whose chart fetch fails, in whatever way, leaves the value
\* and the expiry stored under its chart key as they were, also when the
\* fallback it returns has been enriched.
C33_FailedFetchLeavesSnapshot ==
    [][(RequestStep /\ last'.fetched /\ UpFailed(last'.up))
         => cache'[last'.key] = cache[last'.key]]_vars

\* C33 witness: a failed fetch has returned an enriched fallback while the
\* stored snapshot is the plain one that was read.
C33_Witness ==
    /\ FetchFailure /\ last.include /\ last.resp.cached
    /\ Live(cache, now, last.key)
    /\ cache[last.key].val = last.cached_data
    /\ last.resp.body # last.cached_data

\* a current key is written with ONE_HOUR or ONE_WEEK only: an entry with
\* more than an hour left was stored with the one-week timeout
StoredForAWeek(c, t, k) == Live(c, t, k) /\ c[k].exp > t + ONE_HOUR

\* C34 as stated: a request without refresh=true for a current chart whose
\* entry was stored with the one-week timeout leaves the entry's expiry no
\* earlier than it was, unless it stores a snapshot of another chart date.
C34_WeekEntryStaysAWeek ==
    [][(RequestStep /\ ~last'.refresh /\ last'.week = NoWeek
          /\ StoredForAWeek(cache, now, last'.key))
         => \/ cache'[last'.key].exp >= cache[last'.key].exp
            \/ ChartDate(cache'[last'.key].val) # ChartDate(cache[last'.key].val)]_vars

\* C34 witness: off the refresh day a request without refresh has been
\* served from an entry stored for a week, and the entry is as it was.
C34_Witness ==
    /\ last.done /\ last.week = NoWeek /\ ~last.refresh /\ ~OnRefreshDay
    /\ ServedFromCache
    /\ StoredForAWeek(cache, now, last.key)
    /\ cache[last.key].val = last.cached_data

\* C37: a request makes an upstream call or none; a 200 response carries
\* cached:false exactly when its body is built from the payload of the
\* request's own successful call (the try body outside the same-date
\* branch); a response without a call or after a failed call carries
\* cached:true or is a 503.
C37_CachedFalseMeansFresh ==
    last.done
      => /\ last.fetched <=> last.up # NoUp
         /\ last.fetched <=> Len(last.params) > 0
         /\ last.resp.status \in {STATUS_OK, STATUS_UNAVAILABLE}
         /\ (last.resp.status = STATUS_OK /\ ~last.resp.cached)
              <=> (last.fetched /\ last.up.kind = "ok"
                     /\ ~(SameDateFetch /\ ~last.refresh))
         /\ (last.resp.status = STATUS_OK /\ ~last.resp.cached)
              => last.resp.body = FreshBody
         /\ (~last.fetched \/ UpFailed(last.up))
              => (last.resp.cached \/ last.resp.status = STATUS_UNAVAILABLE)

\* C37 witness: a forced refresh over a cached snapshot has returned the
\* fetched payload, which differs from the cached one, with cached:false.
C37_Witness ==
    /\ last.done /\ last.refresh /\ Truthy(last.cached_data)
    /\ last.fetched /\ last.up.kind = "ok"
    /\ last.resp.status = STATUS_OK /\ ~last.resp.cached
    /\ last.resp.body = FreshBody
    /\ StripEnrichment(last.resp.body) # StripEnrichment(last.cached_data)

---------------------------------------------------------------------------
(* Properties of the cache key, under KeySpec *)

\* the provider's snapshot for the identity (id, week): its chart id is the
\* id asked for and its date the week asked for, if one was
OwnSnapshot(v, id, week) ==
    /\ v.kind = "chart"
    /\ v.id = id
    /\ IF week # NoWeek THEN v.date = week ELSE v.date \notin RawWeeks

\* C35 as stated: whatever the request parameters are, what a request reads
\* under its key is a snapshot of its own identity (chartId, week), never
\* the snapshot of another identity or the rate-limit flag, and the key is
\* not the flag's key.
C35_CacheKeyIsolation ==
    last.done
      => /\ last.key # RATE_KEY
         /\ Truthy(last.cached_data)
              => OwnSnapshot(last.cached_data, last.id, last.week)

\* C35 witness: a request has read the snapshot of its own identity.
C35_Witness ==
    /\ last.done /\ last.week # NoWeek /\ Truthy(last.cached_data)
    /\ last.key # RATE_KEY
    /\ OwnSnapshot(last.cached_data, last.id, last.week)
    /\ nreq = MaxRequests

---------------------------------------------------------------------------
(* Properties of concurrent requests, under FlightSpec *)

\* both workers read the cache before any snapshot was stored, and both
\* found that a call is needed
BothRaced ==
    \A p \in Procs : /\ flight.procs[p].pc \notin {"idle", "decide"}
                     /\ flight.procs[p].seen = 0
                     /\ flight.procs[p].need

\* what the runs in flight can have stored under the key
WrittenWhole ==
    {flight.procs[p].up.data : p \in Procs} \cup {flight.procs[p].cached_data : p \in Procs}

\* C31: when two requests for the same key have both read the cache before
\* either stored, and the cache was empty or due for a refresh, both call
\* the provider; what is then found under the key is the snapshot one of
\* them stored, whole.
C31_NoSingleFlight ==
    BothRaced
      => /\ \A p \in Procs :
              /\ flight.procs[p].pc # "serve"
              /\ flight.procs[p].pc \in {"clear", "store", "done"}
                   => flight.procs[p].up # NoUp
         /\ ((\A p \in Procs : flight.procs[p].pc = "done") /\ Live(cache, now, CurrentKey))
              => cache[CurrentKey].val \in WrittenWhole

\* C31 witness: both requests read an empty cache, both called the provider,
\* which gave them different snapshots, and both have stored.
C31_Witness ==
    /\ BothRaced
    /\ \A p \in Procs : /\ flight.procs[p].pc = "done"
                        /\ ~Truthy(flight.procs[p].cached_data)
                        /\ flight.procs[p].up.kind = "ok"
    /\ flight.procs["w1"].up.data # flight.procs["w2"].up.data
    /\ flight.stores = 2
    /\ cache[CurrentKey].val = flight.procs["w1"].up.data

\* C32 as stated: with a provider whose chart date never decreases, the
\* chart date stored under the current key never moves back.
C32_NoRegression ==
    [][(Live(cache, now, CurrentKey) /\ Live(cache', now', CurrentKey))
         => DateRank(ChartDate(cache'[CurrentKey].val))
              >= DateRank(ChartDate(cache[CurrentKey].val))]_vars

\* C32 witness: a request that read the old snapshot before another stored
\* the new one has itself fetched and stored the new one.
C32_Witness ==
    \E p \in Procs :
       /\ flight.procs[p].pc = "done"
       /\ flight.procs[p].seen < flight.stores - 1
       /\ ChartDate(flight.procs[p].cached_data) = Dates[1]
       /\ flight.procs[p].up.kind = "ok"
       /\ ChartDate(flight.procs[p].up.data) = Dates[2]
       /\ Live(cache, now, CurrentKey)
       /\ ChartDate(cache[CurrentKey].val) = Dates[2]

\* C36: the flag is present only if a chart fetch received a 429 less than
\* 300 seconds ago; and on the refresh day a request without refresh that
\* finds a snapshot is kept from the provider only within those 300 seconds.
C36_BreakerLifetime ==
    /\ [](Live(cache, now, RATE_KEY)
            => (flight.seen429 /\ now - flight.last429 < RATE_LIMIT_TIMEOUT))
    /\ [][\A p \in Procs :
            (flight.procs[p].pc = "decide" /\ flight'.procs[p].pc = "serve"
               /\ IsTuesday(now))
              => (flight.seen429 /\ now - flight.last429 < RATE_LIMIT_TIMEOUT)]_vars

\* C36 witness: 300 seconds after a 429 the flag is gone and a request
\* without refresh that found a snapshot is calling the provider.
C36_Witness ==
    /\ flight.seen429
    /\ now - flight.last429 >= RATE_LIMIT_TIMEOUT
    /\ ~Live(cache, now, RATE_KEY)
    /\ IsTuesday(now)
    /\ \E p \in Procs : /\ flight.procs[p].pc = "call"
                        /\ ~flight.procs[p].refresh
                        /\ Truthy(flight.procs[p].cached_data)

====
